---- MODULE Spec2Model ----
(***************************************************************************)
(* APODAS stream decoder (class Photon_Arrival_Timings).                   *)
(*                                                                         *)
(* The state is the decoder instance (`self`), the locals of one call of   *)
(* retrieve_from_log_file, the capture files given to the run and the      *)
(* output files written so far.  Two programs share the framing code and   *)
(* differ in the sample classifier: photonarrival_1.py (channels A, B and  *)
(* coincidence) and photonarrival_comments.py (channel A and coincidence). *)
(***************************************************************************)
EXTENDS Integers, Sequences, FiniteSets, TLC

VARIABLES
    program,               \* "two_channel" (photonarrival_1.py) or "one_channel" (photonarrival_comments.py)
    files,                 \* the capture files of the run, in processing order
    self,                  \* the instance fields of Photon_Arrival_Timings
    disk,                  \* the output files: disk.A[k], disk.B[k], disk.C[k], disk.P[k] for input file k
    file_no,               \* number of retrieve_from_log_file calls started
    pc,                    \* position in retrieve_from_log_file: "idle", "header", "classify", "summary"
    fp_file,               \* read position of fp_file
    packet_counter,        \* local packet_counter
    difference,            \* local difference: <<>> is None, <<d>> is the integer d
    total_missed_packets,  \* local total_missed_packets
    sub_data_array,        \* [start, len]: the payload bytes read are the file's bytes start .. start+len-1
    i,                     \* loop index of detection_and_timing_of_pulses (0-based)
    open_handles,          \* the output handles that are open: <<stream, number of the input file>>
    log,                   \* history: what the decoder has consumed, in order: <<"pkt", counter>> for a
                           \* valid header, <<"byte", v, n>> for n payload bytes v given to the classifier
    main                   \* the __main__ script of analyze_*.py after the decode: its position, its
                           \* arguments and its arrays

vars == <<program, files, self, disk, file_no, pc, fp_file, packet_counter, difference,
          total_missed_packets, sub_data_array, i, open_handles, log, main>>

(***************************************************************************)
(* Program constants.                                                      *)
(***************************************************************************)
clock_period_ns == 5
time_for_one_wrap_around == 160
sub_data_array_size == 1024
packet_header_size == 90
file_header_size == 24
valid_packet_length == 1052
lost_packet_ticks == 1024
rewind_bytes == 76
scan_step == 4
wrap_marker == 159
first_wrap_value == -1
EXP_marker == <<69, 88, 80, 46>>

None == <<>>
Some(x) == <<x>>

Min(a, b) == IF a <= b THEN a ELSE b
Max(a, b) == IF a >= b THEN a ELSE b

(***************************************************************************)
(* Capture files.  A file is [pkts, cut]: a 24-byte file header, then the  *)
(* packets one after the other, with the last `cut` bytes missing.  A      *)
(* packet is [len, ctr, exp, samples, fill]: a 90-byte header carrying the *)
(* declared length at bytes 32..33, the EXP. marker (when exp) at bytes    *)
(* 72..75 and the sequence counter at bytes 86..89, then the payload: the  *)
(* bytes `samples` followed by `fill` bytes of value 0.  Every other       *)
(* header byte is 0.                                                       *)
(***************************************************************************)
len_offset == 32
\* line 70: the rewind from the end of the marker leads to the header's first byte
exp_offset == rewind_bytes - scan_step
ctr_offset == 86

PayloadSize(p) == Len(p.samples) + p.fill
PacketSize(p) == packet_header_size + PayloadSize(p)

RECURSIVE PacketStart(_, _)
PacketStart(f, k) ==
    IF k = 1 THEN file_header_size
    ELSE PacketStart(f, k - 1) + PacketSize(f.pkts[k - 1])

FileLen(f) ==
    Max(0, PacketStart(f, Len(f.pkts) + 1) - f.cut)

\* index of the packet that holds byte pos (pos >= 24, pos inside the untruncated file)
PacketAt(f, pos) ==
    CHOOSE k \in 1..Len(f.pkts) :
        /\ PacketStart(f, k) <= pos
        /\ pos < PacketStart(f, k) + PacketSize(f.pkts[k])

PacketByte(p, o) ==
    IF o = len_offset THEN p.len \div 256
    ELSE IF o = len_offset + 1 THEN p.len % 256
    ELSE IF o >= exp_offset /\ o < exp_offset + 4
         THEN (IF p.exp THEN EXP_marker[o - exp_offset + 1] ELSE 0)
    ELSE IF o = ctr_offset THEN p.ctr \div 16777216
    ELSE IF o = ctr_offset + 1 THEN (p.ctr \div 65536) % 256
    ELSE IF o = ctr_offset + 2 THEN (p.ctr \div 256) % 256
    ELSE IF o = ctr_offset + 3 THEN p.ctr % 256
    ELSE IF o >= packet_header_size /\ o < packet_header_size + Len(p.samples)
         THEN p.samples[o - packet_header_size + 1]
    ELSE 0

\* the byte at position pos of the file (0 <= pos < FileLen(f))
ByteAt(f, pos) ==
    IF pos < file_header_size THEN 0
    ELSE LET k == PacketAt(f, pos)
         IN  PacketByte(f.pkts[k], pos - PacketStart(f, k))

\* A number n >= 1 such that the n bytes from offset o of the packet are
\* equal: the rest of a region of zero bytes, 1 everywhere else.
PacketRun(p, o) ==
    IF o < len_offset THEN len_offset - o
    ELSE IF o < len_offset + 2 THEN 1
    ELSE IF o < exp_offset THEN exp_offset - o
    ELSE IF o < exp_offset + 4 THEN (IF p.exp THEN 1 ELSE exp_offset + 4 - o)
    ELSE IF o < ctr_offset THEN ctr_offset - o
    ELSE IF o < packet_header_size + Len(p.samples) THEN 1
    ELSE PacketSize(p) - o

RunLen(f, pos) ==
    LET n == IF pos < file_header_size THEN file_header_size - pos
             ELSE LET k == PacketAt(f, pos)
                  IN  PacketRun(f.pkts[k], pos - PacketStart(f, k))
    IN  Min(n, FileLen(f) - pos)

\* fp_file.read(n) at position pos returns the bytes pos .. pos + ReadLen - 1
ReadLen(f, pos, n) == Max(0, Min(n, FileLen(f) - pos))

(***************************************************************************)
(* The sample classifier: one iteration of the loop of                     *)
(* detection_and_timing_of_pulses on the byte v.  The result is the        *)
(* instance after the iteration and the lines the iteration writes to      *)
(* fp_apd_a_detection (A), fp_apd_b_detection (B) and fp_apd_coincidence   *)
(* (C).  A line is <<packet number, running count, timestamp>>.           *)
(***************************************************************************)
NoWrites(s) == [self |-> s, A |-> <<>>, B |-> <<>>, C |-> <<>>]

\* mutant: the first marker sets the count to 0
first_wrap_check_zero(s, v) ==
    IF v = wrap_marker /\ s.first_wrap_around = 0
    THEN [s EXCEPT !.first_wrap_around = 1, !.number_of_wrap_around = 0]
    ELSE s

\* mutant: any byte of 128 or more sets the flag
first_wrap_check_any_overflow(s, v) ==
    IF v >= 128 /\ s.first_wrap_around = 0
    THEN [s EXCEPT !.first_wrap_around = 1, !.number_of_wrap_around = first_wrap_value]
    ELSE s

first_wrap_check(s, v) ==
    IF v = wrap_marker /\ s.first_wrap_around = 0
    THEN [s EXCEPT !.first_wrap_around = 1, !.number_of_wrap_around = first_wrap_value]
    ELSE s

time_of_occurrence(s, v, base) ==
    (v - base) * clock_period_ns + (s.number_of_wrap_around * time_for_one_wrap_around)

\* mutant: an overflow-form byte takes one from the count
overflow_increment_down(s) ==
    [s EXCEPT !.number_of_wrap_around = @ - 1]

\* the wraparound increment of an overflow-form byte
overflow_increment(s) ==
    [s EXCEPT !.number_of_wrap_around = @ + 1]

\* mutant: the timestamp of an overflow-form byte is taken after its increment
apd_a_event_late_time(s, v, base, pkt, overflow) ==
    LET s1 == [s EXCEPT !.apd_a_detection = @ + 1]
        s2 == IF overflow THEN overflow_increment(s1) ELSE s1
        t  == time_of_occurrence(s2, v, base)
    IN  [self |-> s2, A |-> << <<pkt, s2.apd_a_detection, t>> >>,
         B |-> <<>>, C |-> <<>>]

\* mutant: the line carries the count before the event
apd_a_event_count_before(s, v, base, pkt, overflow) ==
    LET s1 == [s EXCEPT !.apd_a_detection = @ + 1]
        t  == time_of_occurrence(s1, v, base)
        s2 == IF overflow THEN overflow_increment(s1) ELSE s1
    IN  [self |-> s2, A |-> << <<pkt, s.apd_a_detection, t>> >>,
         B |-> <<>>, C |-> <<>>]

apd_a_event(s, v, base, pkt, overflow) ==
    LET s1 == [s EXCEPT !.apd_a_detection = @ + 1]
        t  == time_of_occurrence(s1, v, base)
        s2 == IF overflow THEN overflow_increment(s1) ELSE s1
    IN  [self |-> s2, A |-> << <<pkt, s2.apd_a_detection, t>> >>,
         B |-> <<>>, C |-> <<>>]

apd_b_event(s, v, base, pkt, overflow) ==
    LET s1 == [s EXCEPT !.apd_b_detection = @ + 1]
        t  == time_of_occurrence(s1, v, base)
        s2 == IF overflow THEN overflow_increment(s1) ELSE s1
    IN  [self |-> s2, A |-> <<>>,
         B |-> << <<pkt, s2.apd_b_detection, t>> >>, C |-> <<>>]

\* mutant: a coincidence is not mirrored to channel A
coincidence_event_no_mirror(s, v, base, pkt, overflow) ==
    LET s1 == [s EXCEPT !.coincidence_detection = @ + 1,
                        !.apd_b_detection = @ + 1]
        t  == time_of_occurrence(s1, v, base)
        s2 == IF overflow THEN overflow_increment(s1) ELSE s1
    IN  [self |-> s2,
         C |-> << <<pkt, s2.coincidence_detection, t>> >>,
         A |-> <<>>,
         B |-> << <<pkt, s2.apd_b_detection, t>> >>]

\* mutant: the mirrored channel-A line carries the initial value of
\* time_of_occurrence_apd_a instead of the time of the coincidence
coincidence_event_stale_mirror(s, v, base, pkt, overflow) ==
    LET s1 == [s EXCEPT !.coincidence_detection = @ + 1,
                        !.apd_a_detection = @ + 1,
                        !.apd_b_detection = @ + 1]
        t  == time_of_occurrence(s1, v, base)
        s2 == IF overflow THEN overflow_increment(s1) ELSE s1
    IN  [self |-> s2,
         C |-> << <<pkt, s2.coincidence_detection, t>> >>,
         A |-> << <<pkt, s2.apd_a_detection, 0>> >>,
         B |-> << <<pkt, s2.apd_b_detection, t>> >>]

coincidence_event(s, v, base, pkt, overflow) ==
    LET s1 == [s EXCEPT !.coincidence_detection = @ + 1,
                        !.apd_a_detection = @ + 1,
                        !.apd_b_detection = @ + 1]
        t  == time_of_occurrence(s1, v, base)
        s2 == IF overflow THEN overflow_increment(s1) ELSE s1
    IN  [self |-> s2,
         C |-> << <<pkt, s2.coincidence_detection, t>> >>,
         A |-> << <<pkt, s2.apd_a_detection, t>> >>,
         B |-> << <<pkt, s2.apd_b_detection, t>> >>]

\* photonarrival_comments.py: the coincidence branches leave channel B alone
coincidence_event_one_channel(s, v, base, pkt, overflow) ==
    LET s1 == [s EXCEPT !.coincidence_detection = @ + 1,
                        !.apd_a_detection = @ + 1]
        t  == time_of_occurrence(s1, v, base)
        s2 == IF overflow THEN overflow_increment(s1) ELSE s1
    IN  [self |-> s2,
         C |-> << <<pkt, s2.coincidence_detection, t>> >>,
         A |-> << <<pkt, s2.apd_a_detection, t>> >>,
         B |-> <<>>]

\* photonarrival_1.py
classify_two_channel(s0, v, pkt) ==
    LET s == first_wrap_check(s0, v)
    IN  IF s.first_wrap_around = 0 THEN NoWrites(s)
        ELSE IF v < 128 THEN
            IF 32 <= v /\ v <= 63 THEN apd_a_event(s, v, 32, pkt, FALSE)
            ELSE IF 64 <= v /\ v <= 95 THEN apd_b_event(s, v, 64, pkt, FALSE)
            ELSE IF 96 <= v /\ v <= 127 THEN coincidence_event(s, v, 96, pkt, FALSE)
            ELSE NoWrites(s)
        ELSE
            IF v = wrap_marker THEN NoWrites(overflow_increment(s))
            ELSE IF 160 <= v /\ v <= 191 THEN apd_a_event(s, v, 160, pkt, TRUE)
            ELSE IF 192 <= v /\ v <= 223 THEN apd_b_event(s, v, 192, pkt, TRUE)
            ELSE IF 224 <= v /\ v <= 255 THEN coincidence_event(s, v, 224, pkt, TRUE)
            ELSE NoWrites(s)

\* photonarrival_comments.py
classify_one_channel(s0, v, pkt) ==
    LET s == first_wrap_check(s0, v)
    IN  IF s.first_wrap_around = 0 THEN NoWrites(s)
        ELSE IF v < 128 THEN
            IF 32 <= v /\ v <= 63 THEN apd_a_event(s, v, 32, pkt, FALSE)
            ELSE IF 96 <= v /\ v <= 127
                 THEN coincidence_event_one_channel(s, v, 96, pkt, FALSE)
            ELSE NoWrites(s)
        ELSE
            IF v = wrap_marker THEN NoWrites(overflow_increment(s))
            ELSE IF 160 <= v /\ v <= 191 THEN apd_a_event(s, v, 160, pkt, TRUE)
            ELSE IF 224 <= v /\ v <= 255
                 THEN coincidence_event_one_channel(s, v, 224, pkt, TRUE)
            ELSE NoWrites(s)

classify(prog, s, v, pkt) ==
    IF prog = "two_channel" THEN classify_two_channel(s, v, pkt)
    ELSE classify_one_channel(s, v, pkt)

\* n >= 1 iterations of the loop on n equal bytes v.  When an iteration
\* changes nothing and writes nothing, neither do the iterations after it.
RECURSIVE classify_run(_, _, _, _, _)
classify_run(prog, s, v, n, pkt) ==
    LET r == classify(prog, s, v, pkt)
    IN  IF n = 1 \/ r = NoWrites(s) THEN r
        ELSE LET q == classify_run(prog, r.self, v, n - 1, pkt)
             IN  [self |-> q.self, A |-> r.A \o q.A, B |-> r.B \o q.B, C |-> r.C \o q.C]

(***************************************************************************)
(* retrieve_from_log_file, one action per step of the call.                *)
(***************************************************************************)
Streams(prog) == IF prog = "two_channel" THEN {"A", "B", "C", "P"} ELSE {"A", "C", "P"}

current_file == files[file_no]

\* file.write of `lines` on the handle of stream h of the current call
write(d, h, lines) ==
    IF lines = <<>> THEN d ELSE [d EXCEPT ![h][file_no] = @ \o lines]

\* mutant: the previous sequence counter is forgotten at each file
OpenOutputs_fresh_counter ==
    /\ pc = "idle"
    /\ file_no < Len(files)
    /\ file_no' = file_no + 1
    /\ open_handles' = open_handles \cup {<<h, file_no + 1>> : h \in Streams(program)}
    /\ disk' = [h \in DOMAIN disk |->
                   IF h \in Streams(program) THEN Append(disk[h], <<>>) ELSE disk[h]]
    /\ fp_file' = file_header_size
    /\ packet_counter' = 1
    /\ difference' = None
    /\ total_missed_packets' = 0
    /\ pc' = "header"
    /\ self' = [self EXCEPT !.last_udp_packet_counter = None]
    /\ UNCHANGED <<main, program, files, sub_data_array, i, log>>

\* lines 31-42: open the output files, skip the file header, set the locals
OpenOutputs ==
    /\ pc = "idle"
    /\ file_no < Len(files)
    /\ file_no' = file_no + 1
    /\ open_handles' = open_handles \cup {<<h, file_no + 1>> : h \in Streams(program)}
    /\ disk' = [h \in DOMAIN disk |->
                   IF h \in Streams(program) THEN Append(disk[h], <<>>) ELSE disk[h]]
    /\ fp_file' = file_header_size
    /\ packet_counter' = 1
    /\ difference' = None
    /\ total_missed_packets' = 0
    /\ pc' = "header"
    /\ UNCHANGED <<main, program, files, self, sub_data_array, i, log>>

header_available == ReadLen(current_file, fp_file, packet_header_size) = packet_header_size

packet_header(k) == ByteAt(current_file, fp_file + k)

packet_length == packet_header(32) * 256 + packet_header(33)

udp_packet_counter ==
    packet_header(86) * 16777216 + packet_header(87) * 65536
        + packet_header(88) * 256 + packet_header(89)

\* lines 45-48, 76: the file ends inside the header read
ReadHeaderEOF ==
    /\ pc = "header"
    /\ ~header_available
    /\ fp_file' = fp_file + ReadLen(current_file, fp_file, packet_header_size)
    /\ pc' = "summary"
    /\ UNCHANGED <<main, program, files, self, disk, file_no, packet_counter, difference,
                   total_missed_packets, sub_data_array, i, open_handles, log>>

\* lines 53-58: the difference to the previous packet and the packets missed
new_difference ==
    IF self.last_udp_packet_counter # None
    THEN Some(udp_packet_counter - self.last_udp_packet_counter[1])
    ELSE difference

\* mutant: the difference itself is taken as the number of missed packets
packets_missed_off_by_one ==
    IF self.last_udp_packet_counter # None /\ new_difference[1] # 1
    THEN new_difference[1]
    ELSE 0

packets_missed ==
    IF self.last_udp_packet_counter # None /\ new_difference[1] # 1
    THEN new_difference[1] - 1
    ELSE 0

\* mutant: the first packet of every file is written with the placeholder
accounting_line_placeholder_per_file ==
    <<packet_counter, udp_packet_counter,
      IF new_difference # None /\ packet_counter > 1 THEN new_difference[1] ELSE 1>>

\* line 59
accounting_line ==
    <<packet_counter, udp_packet_counter,
      IF new_difference # None THEN new_difference[1] ELSE 1>>

\* mutant: a payload shorter than 1024 bytes ends the decode unclassified
ValidPacket_drop_short ==
    /\ pc = "header"
    /\ header_available
    /\ packet_length = valid_packet_length
    /\ difference' = new_difference
    /\ self' = [self EXCEPT
                   !.number_of_wrap_around = @ + packets_missed * lost_packet_ticks,
                   !.last_udp_packet_counter = Some(udp_packet_counter)]
    /\ total_missed_packets' = total_missed_packets + packets_missed
    /\ disk' = write(disk, "P", <<accounting_line>>)
    /\ sub_data_array' =
           [start |-> fp_file + packet_header_size,
            len |-> ReadLen(current_file, fp_file + packet_header_size, sub_data_array_size)]
    /\ fp_file' = sub_data_array'.start + sub_data_array'.len
    /\ i' = 0
    /\ pc' = IF sub_data_array'.len < sub_data_array_size THEN "summary" ELSE "classify"
    /\ log' = Append(log, <<"pkt", udp_packet_counter>>)
    /\ UNCHANGED <<main, program, files, file_no, packet_counter, open_handles>>

\* mutant: a gap in the counters ends the decode of the file
ValidPacket_stop_on_gap ==
    /\ pc = "header"
    /\ header_available
    /\ packet_length = valid_packet_length
    /\ difference' = new_difference
    /\ self' = [self EXCEPT
                   !.number_of_wrap_around = @ + packets_missed * lost_packet_ticks,
                   !.last_udp_packet_counter = Some(udp_packet_counter)]
    /\ total_missed_packets' = total_missed_packets + packets_missed
    /\ disk' = write(disk, "P", <<accounting_line>>)
    /\ sub_data_array' =
           [start |-> fp_file + packet_header_size,
            len |-> ReadLen(current_file, fp_file + packet_header_size, sub_data_array_size)]
    /\ fp_file' = sub_data_array'.start + sub_data_array'.len
    /\ i' = 0
    /\ pc' = IF packets_missed # 0 THEN "summary" ELSE "classify"
    /\ log' = Append(log, <<"pkt", udp_packet_counter>>)
    /\ UNCHANGED <<main, program, files, file_no, packet_counter, open_handles>>

\* mutant: the read position after the packet is its declared length past
\* the start of its header
ValidPacket_declared_length ==
    /\ pc = "header"
    /\ header_available
    /\ packet_length = valid_packet_length
    /\ difference' = new_difference
    /\ self' = [self EXCEPT
                   !.number_of_wrap_around = @ + packets_missed * lost_packet_ticks,
                   !.last_udp_packet_counter = Some(udp_packet_counter)]
    /\ total_missed_packets' = total_missed_packets + packets_missed
    /\ disk' = write(disk, "P", <<accounting_line>>)
    /\ sub_data_array' =
           [start |-> fp_file + packet_header_size,
            len |-> ReadLen(current_file, fp_file + packet_header_size, sub_data_array_size)]
    /\ fp_file' = Min(fp_file + packet_length, sub_data_array'.start + sub_data_array'.len)
    /\ i' = 0
    /\ pc' = "classify"
    /\ log' = Append(log, <<"pkt", udp_packet_counter>>)
    /\ UNCHANGED <<main, program, files, file_no, packet_counter, open_handles>>

\* lines 45-62: a header with the valid length: accounting, then the payload read
ValidPacket ==
    /\ pc = "header"
    /\ header_available
    /\ packet_length = valid_packet_length
    /\ difference' = new_difference
    /\ self' = [self EXCEPT
                   !.number_of_wrap_around = @ + packets_missed * lost_packet_ticks,
                   !.last_udp_packet_counter = Some(udp_packet_counter)]
    /\ total_missed_packets' = total_missed_packets + packets_missed
    /\ disk' = write(disk, "P", <<accounting_line>>)
    /\ sub_data_array' =
           [start |-> fp_file + packet_header_size,
            len |-> ReadLen(current_file, fp_file + packet_header_size, sub_data_array_size)]
    /\ fp_file' = sub_data_array'.start + sub_data_array'.len
    /\ i' = 0
    /\ pc' = "classify"
    /\ log' = Append(log, <<"pkt", udp_packet_counter>>)
    /\ UNCHANGED <<main, program, files, file_no, packet_counter, open_handles>>

\* lines 88-131: the loop iterations on the next byte of the payload and on
\* the bytes equal to it that follow it
DetectByte ==
    /\ pc = "classify"
    /\ i < sub_data_array.len
    /\ LET at == sub_data_array.start + i
           n  == Min(RunLen(current_file, at), sub_data_array.len - i)
           r  == classify_run(program, self, ByteAt(current_file, at), n, packet_counter)
       IN  /\ self' = r.self
           /\ disk' = write(write(write(disk, "A", r.A), "B", r.B), "C", r.C)
           /\ i' = i + n
           /\ log' = Append(log, <<"byte", ByteAt(current_file, at), n>>)
    /\ UNCHANGED <<main, program, files, file_no, pc, fp_file, packet_counter, difference,
                   total_missed_packets, sub_data_array, open_handles>>

\* line 64: the classifier returns
PacketDone ==
    /\ pc = "classify"
    /\ i = sub_data_array.len
    /\ packet_counter' = packet_counter + 1
    /\ pc' = "header"
    /\ UNCHANGED <<main, program, files, self, disk, file_no, fp_file, difference,
                   total_missed_packets, sub_data_array, i, open_handles, log>>

\* lines 67-75: read 4 bytes at a time from position q until the chunk is the
\* marker (found, pos is the position after the marker) or empty (end of file)
RECURSIVE resync_scan(_, _)
resync_scan(f, q) ==
    LET got == ReadLen(f, q, scan_step)
    IN  IF got = 0 THEN [found |-> FALSE, pos |-> q]
        ELSE IF got = scan_step /\ [k \in 1..scan_step |-> ByteAt(f, q + k - 1)] = EXP_marker
             THEN [found |-> TRUE, pos |-> q + scan_step]
        ELSE IF got < scan_step THEN resync_scan(f, q + got)
        ELSE resync_scan(f, q + scan_step * Max(1, RunLen(f, q) \div scan_step))

\* mutant: the end of file during the scan is not caught: the call ends
\* without summary and without closing
InvalidPacket_raises ==
    /\ pc = "header"
    /\ header_available
    /\ packet_length # valid_packet_length
    /\ LET scan == resync_scan(current_file, fp_file + packet_header_size)
       IN  IF scan.found
           THEN /\ fp_file' = scan.pos - rewind_bytes
                /\ pc' = "header"
           ELSE /\ fp_file' = scan.pos
                /\ pc' = "idle"
    /\ UNCHANGED <<main, program, files, self, disk, file_no, packet_counter, difference,
                   total_missed_packets, sub_data_array, i, open_handles, log>>

\* mutant: the rewind is longer than the header read and one scan step
InvalidPacket_long_rewind ==
    /\ pc = "header"
    /\ header_available
    /\ packet_length # valid_packet_length
    /\ LET scan == resync_scan(current_file, fp_file + packet_header_size)
       IN  IF scan.found
           THEN /\ fp_file' = scan.pos - (packet_header_size + scan_step + 6)
                /\ pc' = "header"
           ELSE /\ fp_file' = scan.pos
                /\ pc' = "summary"
    /\ UNCHANGED <<main, program, files, self, disk, file_no, packet_counter, difference,
                   total_missed_packets, sub_data_array, i, open_handles, log>>

\* mutant: the rejected header takes a packet number
InvalidPacket_counts_packet ==
    /\ pc = "header"
    /\ header_available
    /\ packet_length # valid_packet_length
    /\ LET scan == resync_scan(current_file, fp_file + packet_header_size)
       IN  IF scan.found
           THEN /\ fp_file' = scan.pos - rewind_bytes
                /\ pc' = "header"
           ELSE /\ fp_file' = scan.pos
                /\ pc' = "summary"
    /\ packet_counter' = packet_counter + 1
    /\ UNCHANGED <<main, program, files, self, disk, file_no, difference,
                   total_missed_packets, sub_data_array, i, open_handles, log>>

\* lines 65-75: a header with another length: resynchronize
InvalidPacket ==
    /\ pc = "header"
    /\ header_available
    /\ packet_length # valid_packet_length
    /\ LET scan == resync_scan(current_file, fp_file + packet_header_size)
       IN  IF scan.found
           THEN /\ fp_file' = scan.pos - rewind_bytes
                /\ pc' = "header"
           ELSE /\ fp_file' = scan.pos
                /\ pc' = "summary"
    /\ UNCHANGED <<main, program, files, self, disk, file_no, packet_counter, difference,
                   total_missed_packets, sub_data_array, i, open_handles, log>>

\* mutant: the missed packets are taken from the time as packets, not as
\* 1024 ticks each
summary_lines_missed_as_ticks ==
    << <<"Total missed packets", total_missed_packets>>,
       <<"Total time of observation", self.number_of_wrap_around * time_for_one_wrap_around>>,
       <<"Total time of observation - missed packets time",
         (self.number_of_wrap_around - total_missed_packets)
             * time_for_one_wrap_around>> >>

\* lines 77-79
summary_lines ==
    << <<"Total missed packets", total_missed_packets>>,
       <<"Total time of observation", self.number_of_wrap_around * time_for_one_wrap_around>>,
       <<"Total time of observation - missed packets time",
         (self.number_of_wrap_around - (total_missed_packets * lost_packet_ticks))
             * time_for_one_wrap_around>> >>

\* lines 76-83: the summary, then the output files are closed
WriteSummaryAndClose ==
    /\ pc = "summary"
    /\ disk' = write(disk, "P", summary_lines)
    /\ open_handles' = open_handles \ {<<h, file_no>> : h \in Streams(program)}
    /\ pc' = "idle"
    /\ UNCHANGED <<main, program, files, self, file_no, fp_file, packet_counter, difference,
                   total_missed_packets, sub_data_array, i, log>>

\* lines 6-21: the instance after __init__
init_self ==
    [apd_a_detection |-> 0,
     apd_b_detection |-> 0,
     coincidence_detection |-> 0,
     number_of_wrap_around |-> 0,
     first_wrap_around |-> 0,
     last_udp_packet_counter |-> None]

InitState ==
    /\ self = init_self
    /\ disk = [h \in {"A", "B", "C", "P"} |-> <<>>]
    /\ file_no = 0
    /\ pc = "idle"
    /\ fp_file = 0
    /\ packet_counter = 0
    /\ difference = None
    /\ total_missed_packets = 0
    /\ sub_data_array = [start |-> 0, len |-> 0]
    /\ i = 0
    /\ open_handles = {}
    /\ log = <<>>

Next ==
    \/ OpenOutputs
    \/ ReadHeaderEOF
    \/ ValidPacket
    \/ DetectByte
    \/ PacketDone
    \/ InvalidPacket
    \/ WriteSummaryAndClose

(***************************************************************************)
(* The runs checked.  Each family varies one part of the input: the sample *)
(* bytes, the sequence counters, the framing.                              *)
(***************************************************************************)
MaxSamples == 2
MaxPackets == 3

\* the ends of the classifier's ranges, the marker, and a byte of no range
SampleValues == {wrap_marker, 31, 32, 63, 64, 127, 160, 223, 224}

first_counter == 1 * 16777216 + 2 * 65536 + 3 * 256 + 4

valid_packet(ctr, samples) ==
    [len |-> valid_packet_length, ctr |-> ctr, exp |-> TRUE, samples |-> samples,
     fill |-> sub_data_array_size - Len(samples)]

whole_file(pkts) == [pkts |-> pkts, cut |-> 0]

SeqsUpTo(S, n) == UNION {[1..k -> S] : k \in 0..n}

\* the layouts of a run of packets: one file, or two files with the first
\* `split` packets in the first one; `cut` bytes are missing at the end of
\* the first file
layout(pkts, split, cut) ==
    IF split = Len(pkts) THEN << [pkts |-> pkts, cut |-> cut] >>
    ELSE << [pkts |-> SubSeq(pkts, 1, split), cut |-> cut],
            whole_file(SubSeq(pkts, split + 1, Len(pkts))) >>

\* up to MaxSamples sample bytes, after the marker or not, in one packet
OnePacketRuns ==
    { << whole_file(<< valid_packet(first_counter, pre \o s) >>) >>
        : pre \in {<<>>, <<wrap_marker>>}, s \in SeqsUpTo(SampleValues, MaxSamples) }

\* the same bytes in two packets, of one file or of two files
TwoPacketRuns ==
    UNION { UNION { UNION {
        { layout(<< valid_packet(first_counter, pre \o SubSeq(s, 1, j)),
                    valid_packet(first_counter + 1, SubSeq(s, j + 1, Len(s))) >>, split, 0)
            : split \in 1..2 }
        : j \in 0..Len(s) } : s \in SeqsUpTo(SampleValues, MaxSamples) }
        : pre \in {<<>>, <<wrap_marker>>} }

\* up to MaxPackets valid packets; each counter is the one before plus a
\* delta; the packets from number `first` on carry the marker and an event
CounterDeltas == {-1, 0, 1, 3}

RECURSIVE counters(_, _)
counters(c, deltas) ==
    IF deltas = <<>> THEN <<c>>
    ELSE <<c>> \o counters(c + Head(deltas), Tail(deltas))

CounterRuns ==
    UNION { UNION { UNION {
        { layout([k \in 1..n |->
                     valid_packet(counters(first_counter, deltas)[k],
                                  IF k >= first THEN <<wrap_marker, 63>> ELSE <<>>)],
                 split, 0)
            : split \in 1..n }
        : first \in 1..(n + 1) } : deltas \in [1..(n - 1) -> CounterDeltas] }
        : n \in 1..MaxPackets }

\* up to MaxPackets packets with consecutive counters, each carrying the
\* marker and an event.  A packet is well formed ("ok"), or declares a wrong
\* length: in an otherwise well-formed packet ("bad"), in a packet whose
\* payload starts with the bytes of the EXP. marker ("bad_exp"), or in a
\* packet that is one byte short ("bad_short").  The first file is whole or
\* ends inside the payload or the header of its last packet.
PacketKinds == {"ok", "bad", "bad_exp", "bad_short"}

wrong_length == valid_packet_length - 1

framed_packet(kind, ctr) ==
    LET p == valid_packet(ctr, <<wrap_marker, 32>>)
    IN  IF kind = "ok" THEN p
        ELSE IF kind = "bad" THEN [p EXCEPT !.len = wrong_length]
        ELSE IF kind = "bad_exp"
             THEN [p EXCEPT !.len = wrong_length, !.samples = EXP_marker,
                            !.fill = sub_data_array_size - Len(EXP_marker)]
        ELSE [p EXCEPT !.len = wrong_length, !.fill = @ - 1]

\* bytes missing at the end: none; all of the payload but one byte; the whole
\* payload; the payload and 40 bytes of the header
Cuts == {0, sub_data_array_size - 1, sub_data_array_size, sub_data_array_size + 40}

FramingRuns ==
    { << whole_file(<<>>) >> } \cup
    UNION { UNION {
        { layout([k \in 1..n |-> framed_packet(kinds[k], first_counter + k - 1)], split, cut)
            : split \in 1..n, cut \in Cuts }
        : kinds \in [1..n -> PacketKinds] } : n \in 1..MaxPackets }

\* the script before the timings files are loaded
main_start(args) ==
    [pc |-> "load", args |-> args, all_ts_ns |-> <<>>, skipped |-> {},
     all_ts |-> <<>>, bins |-> <<>>, counts |-> <<>>, bin_centers |-> <<>>, values |-> <<>>]

default_args == [detector |-> "A", bin_width |-> 2000000, show_rate |-> FALSE]

Init ==
    /\ \/ /\ program = "two_channel"
          /\ files \in OnePacketRuns \cup TwoPacketRuns \cup CounterRuns \cup FramingRuns
       \/ /\ program = "one_channel"
          /\ files \in OnePacketRuns
    /\ InitState
    /\ main = main_start(default_args)

Spec == Init /\ [][Next]_vars

(***************************************************************************)
(* The aggregator: the __main__ script of analyze_1.py (analyze_2.py and   *)
(* analyze_comments.py are the same with the channel fixed to A) after the *)
(* files are decoded.  It loads the third column of the timings files of   *)
(* one channel, sorts the timestamps and bins them.                        *)
(*                                                                         *)
(* A time in seconds is held as its number of nanoseconds, so x / 1e9 is   *)
(* held as x and args.bin_width = 0.002 as 2000000; a rate in Hz is held   *)
(* as it is.  A timings file is a sequence of lines; a line of fewer than  *)
(* 3 columns stands for a line that np.loadtxt(usecols=2) cannot parse.    *)
(***************************************************************************)
ns_per_second == 1000000000

\* np.loadtxt(f, usecols=2): an error for an unparsable line; else the column
\* as an array, squeezed: 0-dimensional for a file of one line
loadtxt(lines) ==
    IF \E n \in 1..Len(lines) : Len(lines[n]) < 3
    THEN [error |-> TRUE, ndim |-> 0, data |-> <<>>]
    ELSE [error |-> FALSE,
          ndim |-> IF Len(lines) = 1 THEN 0 ELSE 1,
          data |-> [n \in 1..Len(lines) |-> lines[n][3]]]

\* lines 62-68: loadtxt or len() raises, the file is skipped with a warning
load_raises(lines) == loadtxt(lines).error \/ loadtxt(lines).ndim = 0

\* lines 64-65: the array is appended to all_ts_ns
load_appends(lines) == ~load_raises(lines) /\ Len(loadtxt(lines).data) > 0

timings_files == disk[main.args.detector]

RECURSIVE concatenate(_)
concatenate(arrays) ==
    IF arrays = <<>> THEN <<>> ELSE Head(arrays) \o concatenate(Tail(arrays))

\* np.sort
RECURSIVE sort(_)
sort(q) ==
    IF q = <<>> THEN <<>>
    ELSE LET m == CHOOSE n \in 1..Len(q) : \A k \in 1..Len(q) : q[n] <= q[k]
         IN  <<q[m]>> \o sort(SubSeq(q, 1, m - 1) \o SubSeq(q, m + 1, Len(q)))

\* np.arange(start, stop, step): start + k * step for k < ceil((stop - start) / step)
arange(start, stop, step) ==
    [k \in 1..((stop - start + step - 1) \div step) |-> start + (k - 1) * step]

\* np.histogram(a, bins=edges): the bins are half-open but the last, which
\* is closed; one edge makes no bin
histogram(a, edges) ==
    [b \in 1..(Len(edges) - 1) |->
        Cardinality({n \in 1..Len(a) :
            /\ edges[b] <= a[n]
            /\ \/ a[n] < edges[b + 1]
               \/ b = Len(edges) - 1 /\ a[n] = edges[b + 1]})]

\* lines 60-68: the loop over the timings files
LoadTimings ==
    /\ main.pc = "load"
    /\ pc = "idle" /\ file_no = Len(files)
    /\ main' = [main EXCEPT
           !.pc = "loaded",
           !.all_ts_ns = [k \in 1..Len(SelectSeq(timings_files, load_appends)) |->
                             loadtxt(SelectSeq(timings_files, load_appends)[k]).data],
           !.skipped = {k \in 1..Len(timings_files) : load_raises(timings_files[k])}]
    /\ UNCHANGED <<program, files, self, disk, file_no, pc, fp_file, packet_counter,
                   difference, total_missed_packets, sub_data_array, i, open_handles, log>>

\* mutant: without timestamps the script goes on to an empty series
NoTimestamps_goes_on ==
    /\ main.pc = "loaded"
    /\ main.all_ts_ns = <<>>
    /\ main' = [main EXCEPT !.pc = "plotted"]
    /\ UNCHANGED <<program, files, self, disk, file_no, pc, fp_file, packet_counter,
                   difference, total_missed_packets, sub_data_array, i, open_handles, log>>

\* lines 70-71: raise ValueError("No timestamps found! ...")
NoTimestamps ==
    /\ main.pc = "loaded"
    /\ main.all_ts_ns = <<>>
    /\ main' = [main EXCEPT !.pc = "ValueError"]
    /\ UNCHANGED <<program, files, self, disk, file_no, pc, fp_file, packet_counter,
                   difference, total_missed_packets, sub_data_array, i, open_handles, log>>

\* lines 74-91: concatenate, sort, bin, and the values of the plot
Binning ==
    /\ main.pc = "loaded"
    /\ main.all_ts_ns # <<>>
    /\ LET all_ts == sort(concatenate(main.all_ts_ns))
           bins == arange(all_ts[1], all_ts[Len(all_ts)] + main.args.bin_width,
                          main.args.bin_width)
           counts == histogram(all_ts, bins)
       IN  main' = [main EXCEPT
               !.pc = "plotted",
               !.all_ts = all_ts,
               !.bins = bins,
               !.counts = counts,
               !.bin_centers = [b \in 1..(Len(bins) - 1) |-> (bins[b] + bins[b + 1]) \div 2],
               !.values = IF main.args.show_rate
                          THEN [b \in 1..Len(counts) |->
                                   counts[b] * (ns_per_second \div main.args.bin_width)]
                          ELSE counts]
    /\ UNCHANGED <<program, files, self, disk, file_no, pc, fp_file, packet_counter,
                   difference, total_missed_packets, sub_data_array, i, open_handles, log>>

AggNext ==
    \/ LoadTimings
    \/ NoTimestamps
    \/ Binning

(***************************************************************************)
(* The aggregator's runs: the decode has returned and has left up to two   *)
(* timings files for the channel, of up to MaxRecords lines each.          *)
(***************************************************************************)
MaxRecords == 2

\* Timestamps in nanoseconds (the decoder's are multiples of 5) and bin widths
\* (0.1 ms and 2 ms): the first cycle, the second cycle and one 2 ms later.
\* For these values the script's floating-point edges and comparisons give
\* the results of exact arithmetic, which is the arithmetic of this model.
Timestamps == {0, 160, 2000000}

BinWidths == {100000, 2000000}

\* a record of the decoder, or a line with the timestamp column missing
TimingsLines == {<<1, 1, t>> : t \in Timestamps} \cup {<<1, 1>>}

TimingsFiles == SeqsUpTo(TimingsLines, MaxRecords)

AggInit ==
    /\ program = "two_channel"
    /\ files \in {<<>>, <<whole_file(<<>>)>>, <<whole_file(<<>>), whole_file(<<>>)>>}
    /\ self = init_self
    /\ file_no = Len(files)
    /\ pc = "idle"
    /\ fp_file = 0
    /\ packet_counter = 0
    /\ difference = None
    /\ total_missed_packets = 0
    /\ sub_data_array = [start |-> 0, len |-> 0]
    /\ i = 0
    /\ open_handles = {}
    /\ log = <<>>
    /\ \E detector \in {"A", "B"} :
       \E bin_width \in BinWidths :
       \E show_rate \in BOOLEAN :
       \E loaded \in [1..Len(files) -> TimingsFiles] :
           /\ main = main_start([detector |-> detector, bin_width |-> bin_width,
                                 show_rate |-> show_rate])
           /\ disk = [h \in {"A", "B", "C", "P"} |->
                         IF h = detector THEN loaded
                         ELSE [k \in 1..Len(files) |-> <<>>]]

AggSpec == AggInit /\ [][AggNext]_vars

(***************************************************************************)
(* Properties.                                                             *)
(***************************************************************************)
\* the byte the next iteration of the classifier's loop reads
next_byte == ByteAt(current_file, sub_data_array.start + i)

classifying == pc = "classify" /\ i < sub_data_array.len

\* the lines a step appends to the file of stream h of the current call
appended(h) ==
    SubSeq(disk'[h][file_no], Len(disk[h][file_no]) + 1, Len(disk'[h][file_no]))

EventStreams == Streams(program) \ {"P"}

Last(q) == q[Len(q)]

\* C1: a file boundary leaves the instance as it is: neither the end of a
\* call (summary and close) nor the start of the next one (open) changes
\* number_of_wrap_around, first_wrap_around, last_udp_packet_counter or a
\* detection counter; the start of a call sets packet_counter to 1 and
\* total_missed_packets to 0.
C1_FileBoundaryKeepsState ==
    [][ /\ (pc = "summary" => self' = self)
        /\ (pc = "idle" => /\ self' = self
                           /\ packet_counter' = 1
                           /\ total_missed_packets' = 0) ]_vars

\* the second file is about to be read after a first file with two packets,
\* missed packets, a marker and events
C1_Witness ==
    /\ file_no = 2 /\ pc = "header" /\ fp_file = file_header_size
    /\ packet_counter = 1 /\ total_missed_packets = 0
    /\ Len(disk.P[1]) = 5 /\ disk.P[1][3][2] > 0
    /\ self.number_of_wrap_around > 0 /\ self.first_wrap_around = 1
    /\ self.apd_a_detection > 0 /\ self.last_udp_packet_counter # None

\* C2: every line written to the A, B or coincidence file is written by the
\* classifier for a byte v of one of the six event ranges and carries the
\* timestamp (v - base) * 5 + w * 160, with base the lower end of the range
\* of v and w the value of number_of_wrap_around before the iteration.
C2_TimestampFormula ==
    [][ /\ classifying =>
             \A h \in EventStreams : \A k \in 1..Len(appended(h)) :
                 \E base \in {32, 64, 96, 160, 192, 224} :
                     /\ base <= next_byte /\ next_byte <= base + 31
                     /\ appended(h)[k][3] =
                            (next_byte - base) * 5 + self.number_of_wrap_around * 160
        /\ (pc # "classify") =>
             \A h \in EventStreams : \A k \in 1..file_no : disk'[h][k] = disk[h][k] ]_vars

\* an overflow-form channel-B byte (223) was classified at wraparound count
\* w >= 1 and its line carries 31 * 5 + w * 160
C2_Witness ==
    /\ pc = "classify" /\ i >= 1
    /\ ByteAt(current_file, sub_data_array.start + i - 1) = 223
    /\ self.number_of_wrap_around >= 2
    /\ disk.B[file_no] # <<>>
    /\ Last(disk.B[file_no])[3] = 155 + (self.number_of_wrap_around - 1) * 160

\* C4: the iteration on the first marker of the run sets the flag and leaves
\* the count at 0; the flag is never cleared, by no step of any call; a
\* marker read with the flag set adds one to the count.
C4_FirstMarker ==
    [][ /\ (self.first_wrap_around = 1 => self'.first_wrap_around = 1)
        /\ (classifying /\ next_byte = 159 /\ self.first_wrap_around = 0) =>
               /\ self'.first_wrap_around = 1
               /\ self'.number_of_wrap_around = 0
        /\ (classifying /\ next_byte = 159 /\ self.first_wrap_around = 1) =>
               self'.number_of_wrap_around = self.number_of_wrap_around + 1
        /\ ~(classifying /\ next_byte = 159) =>
               self'.first_wrap_around = self.first_wrap_around ]_vars

\* a marker was read in the second file, after the first marker of the run
\* in the first file: the count went from 0 to 1
C4_Witness ==
    /\ file_no = 2 /\ pc = "classify" /\ i = 1
    /\ ByteAt(current_file, sub_data_array.start) = 159
    /\ self.first_wrap_around = 1
    /\ self.number_of_wrap_around = 1
    /\ \E k \in 1..(Len(log) - 1) : log[k] = <<"byte", 159, 1>>

(***************************************************************************)
(* What the history says: the markers, the samples and the counters the    *)
(* decoder has consumed.                                                   *)
(***************************************************************************)
RECURSIVE SumSeq(_)
SumSeq(q) == IF q = <<>> THEN 0 ELSE Head(q) + SumSeq(Tail(q))

is_byte(k) == log[k][1] = "byte"
is_pkt(k) == log[k][1] = "pkt"
is_marker(k) == is_byte(k) /\ log[k][2] = 159

\* the place in the log of the first marker of the run, 0 when there is none
first_marker_at ==
    IF \E k \in 1..Len(log) : is_marker(k)
    THEN CHOOSE k \in 1..Len(log) : is_marker(k) /\ \A j \in 1..(k - 1) : ~is_marker(j)
    ELSE 0

\* the bytes that advance the count: the marker and the overflow-form events
advances_wrap(v) == v = 159 \/ (160 <= v /\ v <= 255)

\* channel-A and coincidence samples
counts_for_a(v) ==
    \/ 32 <= v /\ v <= 63
    \/ 160 <= v /\ v <= 191
    \/ 96 <= v /\ v <= 127
    \/ 224 <= v /\ v <= 255

\* how many of the bytes logged at place `from` or later satisfy Test
bytes_from(from, Test(_)) ==
    SumSeq([k \in 1..Len(log) |->
               IF k >= from /\ is_byte(k) /\ Test(log[k][2]) THEN log[k][3] ELSE 0])

\* the count the samples alone give, as in a run that misses no packet
wraps_from_samples ==
    IF first_marker_at = 0 THEN 0
    ELSE bytes_from(first_marker_at, advances_wrap) - 1

\* the counter of the valid packet before the one logged at place k
previous_pkt(k) ==
    IF \E j \in 1..(k - 1) : is_pkt(j)
    THEN CHOOSE j \in 1..(k - 1) : is_pkt(j) /\ \A m \in (j + 1)..(k - 1) : ~is_pkt(m)
    ELSE 0

delta_at(k) == IF previous_pkt(k) = 0 THEN 1 ELSE log[k][2] - log[previous_pkt(k)][2]

pkt_places == {k \in 1..Len(log) : is_pkt(k)}

\* the run so far has one gap, of counters N and N + 3
gap_of_three(g) ==
    /\ g \in pkt_places
    /\ previous_pkt(g) # 0
    /\ delta_at(g) = 3
    /\ \A k \in pkt_places \ {g} : delta_at(k) = 1

accounting_lines(k) == SelectSeq(disk.P[k], LAMBDA line : Len(line) = 3)

\* the missed packets of the k-th call: the local, or the summary once written
missed_of_file(k) ==
    IF k = file_no /\ pc # "idle" THEN total_missed_packets
    ELSE disk.P[k][Len(disk.P[k]) - 2][2]

missed_of_run == SumSeq([k \in 1..file_no |-> missed_of_file(k)])

gap_is_accounted(g) ==
    /\ \E k \in 1..file_no : \E n \in 1..Len(disk.P[k]) :
           /\ Len(disk.P[k][n]) = 3
           /\ disk.P[k][n][2] = log[g][2]
           /\ disk.P[k][n][3] = 3
    /\ missed_of_run = 2

\* C3 as stated: after counters N and N + 3 the record has delta 3, two
\* packets are missed, and the count stays 2 * 1024 above the count of the
\* run without the gap.
C3_Original ==
    \A g \in 1..Len(log) : gap_of_three(g) =>
        /\ gap_is_accounted(g)
        /\ self.number_of_wrap_around = wraps_from_samples + 2 * 1024

\* C3 amended: the same, but a first marker classified after the gap sets
\* the count to -1 and with that discards the 2 * 1024.
C3_GapOfThree ==
    \A g \in 1..Len(log) : gap_of_three(g) =>
        /\ gap_is_accounted(g)
        /\ self.number_of_wrap_around =
               wraps_from_samples
                   + (IF first_marker_at > g THEN 0 ELSE 2 * 1024)

\* the gap is at the first packet of the second file, after the first marker
\* of the run, and the payload after the gap has been classified
C3_Witness ==
    /\ file_no = 2 /\ pc = "summary"
    /\ \E g \in 1..Len(log) :
           /\ gap_of_three(g)
           /\ first_marker_at # 0 /\ first_marker_at < g
           /\ disk.P[2][1][2] = log[g][2]
    /\ disk.A[2] # <<>>
    /\ Last(disk.A[2])[3] > 2 * 1024 * 160

Final == pc = "idle" /\ file_no = Len(files)

a_records == SumSeq([k \in 1..file_no |-> Len(disk.A[k])])

\* C5 as stated: at the end of the run there are as many channel-A lines as
\* channel-A and coincidence samples in the payloads classified.
C5_Original ==
    Final => a_records = bytes_from(1, counts_for_a)

\* C5 amended: there are as many channel-A lines as channel-A and
\* coincidence samples classified after the first marker of the run.
C5_CountFromFirstMarker ==
    a_records = IF first_marker_at = 0 THEN 0 ELSE bytes_from(first_marker_at, counts_for_a)

\* a run with a channel-A sample and a coincidence sample after the marker
C5_Witness ==
    /\ Final
    /\ first_marker_at # 0
    /\ \E k \in 1..Len(log) : is_byte(k) /\ 96 <= log[k][2] /\ log[k][2] <= 127
    /\ \E k \in 1..Len(log) : is_byte(k) /\ 32 <= log[k][2] /\ log[k][2] <= 63
    /\ a_records = 2

\* lines n and n + 1 of a file come from one payload
same_payload(lines, n) == lines[n][1] = lines[n + 1][1]

\* C6 as stated: within a payload the timestamps of a stream never decrease.
C6_Original ==
    \A h \in EventStreams : \A k \in 1..file_no : \A n \in 1..(Len(disk[h][k]) - 1) :
        same_payload(disk[h][k], n) => disk[h][k][n][3] <= disk[h][k][n + 1][3]

\* C6 amended: within a payload the wraparound cycle of the timestamps
\* (timestamp div 160) of a stream never decreases.
C6_CycleNeverDecreases ==
    \A h \in EventStreams : \A k \in 1..file_no : \A n \in 1..(Len(disk[h][k]) - 1) :
        same_payload(disk[h][k], n) =>
            disk[h][k][n][3] \div 160 <= disk[h][k][n + 1][3] \div 160

\* two channel-A lines of one payload, the second in a later cycle
C6_Witness ==
    \E k \in 1..file_no : \E n \in 1..(Len(disk.A[k]) - 1) :
        /\ same_payload(disk.A[k], n)
        /\ disk.A[k][n][3] \div 160 < disk.A[k][n + 1][3] \div 160

\* the packets of a file that declare the valid length
valid_places(f) == {k \in 1..Len(f.pkts) : f.pkts[k].len = valid_packet_length}

\* a whole file of packets of 90 + 1024 bytes in which one packet declares a
\* wrong length and the packets after it are valid and carry the marker
one_corrupt_packet(f) ==
    /\ f.cut = 0
    /\ \A k \in 1..Len(f.pkts) : PacketSize(f.pkts[k]) = 90 + 1024
    /\ \E b \in 1..(Len(f.pkts) - 1) :
           /\ f.pkts[b].len # valid_packet_length
           /\ \A k \in 1..Len(f.pkts) : k # b =>
                  f.pkts[k].len = valid_packet_length /\ f.pkts[k].exp

\* the packet has its accounting line, and its channel-A and coincidence
\* samples behind a leading marker have their channel-A lines
is_decoded(p) ==
    \E n \in 1..Len(disk.P[file_no]) :
        LET line == disk.P[file_no][n]
        IN  /\ Len(line) = 3
            /\ line[2] = p.ctr
            /\ (p.samples # <<>> /\ Head(p.samples) = 159) =>
                   Len(SelectSeq(disk.A[file_no], LAMBDA a : a[1] = line[1]))
                       = Cardinality({j \in 1..Len(p.samples) : counts_for_a(p.samples[j])})

\* C7 as stated: when one packet of a file declares a wrong length and the
\* next one is valid and carries the marker, every valid packet of the file
\* is decoded: it has its accounting line and its event lines.
C7_Original ==
    (pc = "summary" /\ one_corrupt_packet(current_file)) =>
        \A k \in valid_places(current_file) : is_decoded(current_file.pkts[k])

summary_tags ==
    <<"Total missed packets", "Total time of observation",
      "Total time of observation - missed packets time">>

\* the accounting file of the k-th call is complete: accounting lines, then
\* the three summary lines
finalized(k) ==
    LET q == disk.P[k]
    IN  /\ Len(q) >= 3
        /\ \A n \in 1..Len(q) :
               IF n <= Len(q) - 3 THEN Len(q[n]) = 3
               ELSE Len(q[n]) = 2 /\ q[n][1] = summary_tags[n - (Len(q) - 3)]

is_prefix(q, r) == Len(q) <= Len(r) /\ SubSeq(r, 1, Len(q)) = q

\* C8: between calls no output handle is open and every accounting file
\* written so far ends with its three summary lines, written once and after
\* its accounting lines; during a call exactly the handles of that call are
\* open; every way out of
\* the packet loop leads to the summary and from there to the return; no
\* step removes or changes a line already written.
C8_EveryExitFinalizes ==
    /\ [](/\ pc = "idle" =>
                /\ open_handles = {}
                /\ \A k \in 1..file_no : finalized(k)
          /\ pc # "idle" =>
                /\ open_handles = {<<h, file_no>> : h \in Streams(program)}
                /\ \A k \in 1..(file_no - 1) : finalized(k)
                /\ \A n \in 1..Len(disk.P[file_no]) : Len(disk.P[file_no][n]) = 3)
    /\ [][ /\ \A h \in Streams(program) : \A k \in 1..file_no :
                  is_prefix(disk[h][k], disk'[h][k])
           /\ (pc = "header" /\ pc' \notin {"header", "classify"}) => pc' = "summary"
           /\ (pc = "classify") => pc' \in {"classify", "header"}
           /\ (pc = "summary") => pc' = "idle" ]_vars

\* two calls have returned: the first file ends inside the payload of a
\* valid packet (and then at the header read), the second ends during a
\* resynchronization; the lines of the first file are in place
C8_Witness ==
    /\ Final /\ file_no = 2
    /\ files[1].cut = sub_data_array_size - 1
    /\ Last(files[1].pkts).len = valid_packet_length
    /\ Last(files[2].pkts).len # valid_packet_length
    /\ Len(accounting_lines(1)) >= 1
    /\ Len(accounting_lines(2)) >= 1

\* the payload bytes given to the classifier since the last valid header
bytes_of_last_payload ==
    LET last == CHOOSE k \in pkt_places : \A j \in pkt_places : j <= k
    IN  bytes_from(last, LAMBDA v : TRUE)

\* C9: a header read that finds fewer than 90 bytes ends the decode and
\* changes nothing else; a valid header gets its accounting line with the
\* packet number, and its payload is the bytes that are left, at most 1024
\* (none when none are left); the classifier's loop ends after exactly these
\* bytes; after a payload shorter than 1024 bytes the next header read finds
\* the end of the file.
C9_TruncatedReads ==
    /\ [](/\ (pc = "header" /\ packet_counter > 1) =>
                 bytes_of_last_payload = sub_data_array.len
          /\ (pc = "header" /\ packet_counter > 1
                 /\ sub_data_array.len < sub_data_array_size) => ~header_available)
    /\ [][ /\ (pc = "header" /\ FileLen(current_file) - fp_file < 90) =>
                  /\ pc' = "summary"
                  /\ UNCHANGED <<self, disk, packet_counter, total_missed_packets, log>>
           /\ (pc = "header" /\ pc' = "classify") =>
                  /\ sub_data_array'.start = fp_file + 90
                  /\ sub_data_array'.len =
                         Max(0, Min(1024, FileLen(current_file) - sub_data_array'.start))
                  /\ i' = 0
                  /\ Len(disk'.P[file_no]) = Len(disk.P[file_no]) + 1
                  /\ Last(disk'.P[file_no])[1] = packet_counter
           /\ (pc = "header" /\ FileLen(current_file) - fp_file >= 90
                 /\ current_file.pkts[PacketAt(current_file, fp_file)].len = 1052
                 /\ fp_file = PacketStart(current_file, PacketAt(current_file, fp_file))) =>
                  pc' = "classify"
           /\ (pc = "classify" /\ pc' # "classify") =>
                  /\ i = sub_data_array.len
                  /\ pc' = "header"
                  /\ packet_counter' = packet_counter + 1 ]_vars

\* the file ended one byte into the payload of its second packet: the byte
\* (a marker) was classified, the packet has its line, the decode has ended
C9_Witness ==
    /\ pc = "summary"
    /\ sub_data_array.len = 1
    /\ packet_counter = 3
    /\ Last(log) = <<"byte", 159, 1>>
    /\ Len(disk.P[file_no]) = 2
    /\ fp_file = FileLen(current_file)

\* C10: a header that declares 1052 bytes, whatever its counter, appends one
\* accounting line (packet number, counter, delta), sets
\* last_udp_packet_counter to the counter and starts the classification of
\* its payload; the delta adds (delta - 1) to the missed packets and
\* (delta - 1) * 1024 to the count and changes nothing else.
C10_GapsAreAccounted ==
    [][ pc = "header" => \A k \in 1..Len(current_file.pkts) :
            (/\ header_available
             /\ fp_file = PacketStart(current_file, k)
             /\ current_file.pkts[k].len = 1052) =>
                LET c == current_file.pkts[k].ctr
                    d == IF self.last_udp_packet_counter = None THEN 1
                         ELSE c - self.last_udp_packet_counter[1]
                IN  /\ disk'.P[file_no] = Append(disk.P[file_no], <<packet_counter, c, d>>)
                    /\ self' = [self EXCEPT
                                   !.last_udp_packet_counter = Some(c),
                                   !.number_of_wrap_around = @ + (d - 1) * 1024]
                    /\ total_missed_packets' = total_missed_packets + (d - 1)
                    /\ pc' = "classify" /\ i' = 0
                    /\ \A h \in EventStreams : disk'[h] = disk[h] ]_vars

\* a packet whose counter is one below the counter before it has been
\* accounted and its payload is being classified
C10_Witness ==
    /\ pc = "classify" /\ i > 0
    /\ difference = Some(-1)
    /\ Last(disk.P[file_no])[3] = -1
    /\ total_missed_packets = -2

(***************************************************************************)
(* The two decoder variants side by side.                                  *)
(***************************************************************************)
\* the instance without its channel-B counter
without_b(s) == [s EXCEPT !.apd_b_detection = 0]

other_program == IF program = "two_channel" THEN "one_channel" ELSE "two_channel"

\* C11 as stated: on the same bytes the two variants write the same
\* channel-A and coincidence lines and hold the same wraparound count, flag,
\* channel-A and coincidence counters: every classifier step of one variant
\* is matched by the classifier of the other variant started from the same
\* instance (channel-B counter aside).
C11_Original ==
    [][ classifying =>
            LET other == classify_run(other_program, without_b(self), next_byte,
                                      i' - i, packet_counter)
            IN  /\ appended("A") = other.A
                /\ appended("C") = other.C
                /\ without_b(self') = without_b(other.self) ]_vars

is_coincidence(v) == (96 <= v /\ v <= 127) \/ (224 <= v /\ v <= 255)

\* C12: the iteration on a coincidence byte with the flag set adds one to
\* coincidence_detection and to apd_a_detection (and to apd_b_detection in
\* the two-channel decoder, which the single-channel decoder leaves alone),
\* writes one coincidence line and one channel-A line (and one channel-B
\* line) with the packet number of the payload and one and the same
\* timestamp, each with the new value of its counter.
C12_CoincidenceMirrored ==
    [][ (classifying /\ is_coincidence(next_byte) /\ self.first_wrap_around = 1) =>
            /\ i' = i + 1
            /\ self'.coincidence_detection = self.coincidence_detection + 1
            /\ self'.apd_a_detection = self.apd_a_detection + 1
            /\ Len(appended("C")) = 1 /\ Len(appended("A")) = 1
            /\ appended("C")[1][1] = packet_counter
            /\ appended("C")[1][2] = self'.coincidence_detection
            /\ appended("A")[1] =
                   <<packet_counter, self'.apd_a_detection, appended("C")[1][3]>>
            /\ IF program = "two_channel"
               THEN /\ self'.apd_b_detection = self.apd_b_detection + 1
                    /\ appended("B") =
                           << <<packet_counter, self'.apd_b_detection,
                                appended("C")[1][3]>> >>
               ELSE /\ self'.apd_b_detection = self.apd_b_detection
                    /\ disk'.B = disk.B ]_vars

\* the payload 159, 32, 224 has been classified by the two-channel decoder:
\* the coincidence is the second channel-A line, the first channel-B line
\* and the first coincidence line, all three at the same time
C12_Witness ==
    /\ program = "two_channel" /\ pc = "classify" /\ i = 3
    /\ ByteAt(current_file, sub_data_array.start + 2) = 224
    /\ self.apd_a_detection = 2 /\ self.coincidence_detection = 1
    /\ Last(disk.C[file_no]) = <<packet_counter, 1, 0>>
    /\ Last(disk.A[file_no]) = <<packet_counter, 2, 0>>
    /\ Last(disk.B[file_no]) = <<packet_counter, 1, 0>>

\* the packets the accounting lines q report as missed: delta - 1 for every
\* line whose delta is not 1
missed_in(q) ==
    SumSeq([n \in 1..Len(q) |-> IF q[n][3] # 1 THEN q[n][3] - 1 ELSE 0])

\* C13: the step that ends a call writes three lines: the missed packets,
\* which are the sum of delta - 1 over the accounting lines of the file with
\* delta # 1; the count at that moment times 160; and the count less 1024
\* for every missed packet, times 160.  The step leaves the instance alone.
C13_SummaryValues ==
    [][ pc = "summary" =>
            LET missed == missed_in(accounting_lines(file_no))
                w == self.number_of_wrap_around
            IN  /\ appended("P") =
                       << <<"Total missed packets", missed>>,
                          <<"Total time of observation", w * 160>>,
                          <<"Total time of observation - missed packets time",
                            (w - missed * 1024) * 160>> >>
                /\ self' = self ]_vars

\* one file of three packets with counters N, N + 3, N + 6, each with a
\* marker: four packets missed, a count of 4098 at the end of the file
C13_Witness ==
    /\ pc = "idle" /\ file_no = 1
    /\ Len(disk.P[1]) = 6
    /\ disk.P[1][2][3] = 3 /\ disk.P[1][3][3] = 3
    /\ self.number_of_wrap_around = 4098
    /\ disk.P[1][4][2] = 4
    /\ disk.P[1][5][2] = 4098 * 160
    /\ disk.P[1][6][2] = 2 * 160

(***************************************************************************)
(* The aggregator's claims (specification AggSpec).                        *)
(***************************************************************************)
\* np.loadtxt gives an array of timestamps for these lines: at least two
\* lines, each with its timestamp column
has_timestamps(lines) ==
    Len(lines) >= 2 /\ \A n \in 1..Len(lines) : Len(lines[n]) = 3

nothing_to_load == \A k \in 1..Len(timings_files) : ~has_timestamps(timings_files[k])

\* C14: when no timings file of the channel gives a timestamp (there is no
\* file, or every file is empty or raises while it is loaded) the script
\* raises ValueError after the load and never makes a series; it raises in no
\* other case.
C14_EmptyInputFails ==
    /\ [](/\ main.pc = "ValueError" =>
                nothing_to_load /\ main.all_ts = <<>> /\ main.bins = <<>> /\ main.values = <<>>
          /\ main.pc = "plotted" => ~nothing_to_load)
    /\ [][ /\ (main.pc = "loaded" /\ nothing_to_load) => main'.pc = "ValueError"
           /\ (main.pc = "ValueError") => FALSE ]_vars

\* the script has raised on two files: an empty one and one whose line
\* cannot be parsed
C14_Witness ==
    /\ main.pc = "ValueError"
    /\ timings_files = << <<>>, << <<1, 1>> >> >>
    /\ main.skipped = {2}

\* how many times t occurs in the sequence q
occurrences(q, t) == Cardinality({n \in 1..Len(q) : q[n] = t})

\* the lines can be parsed: every line has its timestamp column
parses(lines) == \A n \in 1..Len(lines) : Len(lines[n]) = 3

\* C15 as stated: the sorted series holds every timestamp of every timings
\* file that can be parsed, as often as the files hold it and whatever the
\* number of lines of a file, and nothing else; a file that cannot be parsed
\* is skipped.
C15_Original ==
    main.pc = "plotted" =>
        /\ \A n \in 1..(Len(main.all_ts) - 1) : main.all_ts[n] <= main.all_ts[n + 1]
        /\ \A k \in 1..Len(timings_files) : ~parses(timings_files[k]) => k \in main.skipped
        /\ \A t \in Timestamps :
               occurrences(main.all_ts, t) =
                   SumSeq([k \in 1..Len(timings_files) |->
                       IF parses(timings_files[k])
                       THEN occurrences([n \in 1..Len(timings_files[k]) |->
                                            timings_files[k][n][3]], t)
                       ELSE 0])

\* C16 as stated: the edges are min, min + bin_width, ... below
\* max + bin_width; the count of a bin is the number of timestamps from its
\* left edge up to, not including, its right edge; its center is the middle
\* of its edges; in rate mode its value is its count over the bin width.
C16_Original ==
    main.pc = "plotted" =>
        LET ts == main.all_ts
            edges == main.bins
            bw == main.args.bin_width
        IN  /\ edges[1] = ts[1]
            /\ \A b \in 1..(Len(edges) - 1) : edges[b + 1] = edges[b] + bw
            /\ edges[Len(edges)] < ts[Len(ts)] + bw
            /\ Len(main.counts) = Len(edges) - 1
            /\ \A b \in 1..(Len(edges) - 1) :
                   /\ main.counts[b] =
                          Cardinality({n \in 1..Len(ts) :
                                          edges[b] <= ts[n] /\ ts[n] < edges[b + 1]})
                   /\ 2 * main.bin_centers[b] = edges[b] + edges[b + 1]
                   /\ main.values[b] =
                          IF main.args.show_rate
                          THEN main.counts[b] * (ns_per_second \div bw)
                          ELSE main.counts[b]


\* C17 as stated: with the flag set, an iteration adds one to
\* number_of_wrap_around when its byte is the marker 159 or an overflow-form
\* event (160..255) and leaves the count alone for every other byte, in the
\* two-channel and in the single-channel decoder.
C17_Original ==
    [][ (classifying /\ self.first_wrap_around = 1) =>
            self'.number_of_wrap_around =
                self.number_of_wrap_around +
                    (IF advances_wrap(next_byte) THEN i' - i ELSE 0) ]_vars


\* a file of the documented format: every packet has its 90 + 1024 bytes
\* and the EXP. marker in its header
documented_format(f) ==
    \A k \in 1..Len(f.pkts) : PacketSize(f.pkts[k]) = 90 + 1024 /\ f.pkts[k].exp

\* C18 as stated: in a file of the documented format, when the scan that
\* follows a rejected header finds the marker and rewinds 76 bytes, the next
\* header read starts at the first byte of a packet (read here in its weaker
\* sense: of any packet of the file, valid or not).
C18_Original ==
    [][ (/\ pc = "header"
         /\ header_available
         /\ packet_length # valid_packet_length
         /\ documented_format(current_file)
         /\ pc' = "header") =>
            \E k \in 1..Len(current_file.pkts) :
                fp_file' = PacketStart(current_file, k) ]_vars


\* C19: while the flag is unset, an iteration of the classifier writes no
\* line and changes no detection counter, whatever its byte (the event
\* values 32..127 and 160..255 included); the flag is set by the byte 159
\* and by no other byte.
C19_NothingBeforeFirstMarker ==
    [][ (classifying /\ self.first_wrap_around = 0) =>
            /\ disk' = disk
            /\ self'.apd_a_detection = self.apd_a_detection
            /\ self'.apd_b_detection = self.apd_b_detection
            /\ self'.coincidence_detection = self.coincidence_detection
            /\ self'.first_wrap_around = (IF next_byte = 159 THEN 1 ELSE 0) ]_vars

\* a payload that starts with the event bytes 160 and 224 and holds no
\* marker has been classified to its end: nothing is written and nothing is
\* counted
C19_Witness ==
    /\ pc = "classify" /\ i = sub_data_array.len /\ i > 0
    /\ ByteAt(current_file, sub_data_array.start) = 160
    /\ ByteAt(current_file, sub_data_array.start + 1) = 224
    /\ self.first_wrap_around = 0
    /\ self.apd_a_detection = 0 /\ self.coincidence_detection = 0
    /\ disk.A[file_no] = <<>> /\ disk.C[file_no] = <<>>


\* the lines of stream h of the whole run, in the order they were written
stream_of_run(h) == concatenate([k \in 1..file_no |-> disk[h][k]])

detection_counter(h) ==
    IF h = "A" THEN self.apd_a_detection
    ELSE IF h = "B" THEN self.apd_b_detection
    ELSE self.coincidence_detection

\* C20: in every state of a run, the n-th line of the channel-A, channel-B
\* and coincidence streams, taken over the files of the run, carries the
\* count n; the counter of a stream is the number of its lines; and
\* coincidence_detection is at most apd_a_detection (and at most
\* apd_b_detection in the two-channel decoder).
C20_RunningCounts ==
    /\ \A h \in EventStreams :
           /\ \A n \in 1..Len(stream_of_run(h)) : stream_of_run(h)[n][2] = n
           /\ detection_counter(h) = Len(stream_of_run(h))
    /\ self.coincidence_detection <= self.apd_a_detection
    /\ program = "two_channel" => self.coincidence_detection <= self.apd_b_detection

\* a run of two files: a coincidence in the first file, a channel-A event in
\* the second, whose line carries the count 2
C20_Witness ==
    /\ file_no = 2 /\ pc = "idle"
    /\ Len(disk.A[1]) = 1 /\ Len(disk.C[1]) = 1
    /\ disk.A[2] # <<>> /\ Last(disk.A[2])[2] = 2
    /\ self.apd_a_detection = 2 /\ self.coincidence_detection = 1


\* the step reads a header that declares the valid length
valid_header == pc = "header" /\ header_available /\ packet_length = valid_packet_length

\* C21: the first valid packet of the run is written with the delta 1 and
\* adds nothing to the missed packets or to number_of_wrap_around; every
\* valid packet after it, the first packet of a later file included, is
\* written with its counter less the counter of the valid packet before it
\* in the run.
C21_DeltaToPreviousPacket ==
    [][ valid_header =>
            /\ Len(appended("P")) = 1
            /\ appended("P")[1][2] = udp_packet_counter
            /\ IF pkt_places = {}
               THEN /\ appended("P")[1][3] = 1
                    /\ total_missed_packets' = total_missed_packets
                    /\ self'.number_of_wrap_around = self.number_of_wrap_around
               ELSE appended("P")[1][3] =
                        udp_packet_counter - log[previous_pkt(Len(log) + 1)][2] ]_vars

\* the first packet of the second file comes three counters after the last
\* packet of the first file: the first line of the first file has the
\* placeholder, the first line of the second file has the delta 3
C21_Witness ==
    /\ file_no = 2 /\ pc = "classify"
    /\ accounting_lines(1) # <<>>
    /\ accounting_lines(1)[1][3] = 1
    /\ Len(disk.P[2]) = 1
    /\ disk.P[2][1][1] = 1 /\ disk.P[2][1][3] = 3
    /\ total_missed_packets = 2


\* the payload read that follows the header returns 1024 bytes
untruncated == ReadLen(current_file, fp_file + packet_header_size, sub_data_array_size) = 1024

call_rank ==
    IF pc = "idle" THEN 0
    ELSE IF pc = "summary" THEN 1
    ELSE IF pc = "header" THEN 2 + (FileLen(current_file) - fp_file)
    ELSE 3 + (FileLen(current_file) - fp_file) + (sub_data_array.len - i)

\* C23: every step of the packet loop that starts with a header read ends
\* the decode of the file or leaves the read position greater than it was,
\* the step that rewinds 76 bytes included; the classifier does not move the
\* read position.  The decode terminates: what is left of the call is never
\* negative and every step makes it less, or starts the call of the next
\* file.
C23_DecodeTerminates ==
    [][ /\ pc = "header" => (pc' = "summary" \/ fp_file' > fp_file)
        /\ pc = "classify" => fp_file' = fp_file
        /\ call_rank >= 0 /\ call_rank' >= 0
        /\ \/ file_no' = file_no /\ call_rank' < call_rank
           \/ file_no' = file_no + 1 /\ pc = "idle" ]_vars

\* a resynchronization has found the marker in the payload of the rejected
\* packet and has moved the read position from 24 to 42 only
C23_Witness ==
    /\ pc = "header" /\ file_no = 1 /\ fp_file = 24 + 90 + 4 - 76
    /\ packet_counter = 1


\* the step reads a header that declares another length than 1052
invalid_header == pc = "header" /\ header_available /\ packet_length # valid_packet_length

\* C24: the step that rejects a header and resynchronizes, to the marker or
\* to the end of the file, writes no line to any stream and leaves the
\* instance (last_udp_packet_counter, number_of_wrap_around,
\* first_wrap_around, the detection counters), the packet number of the
\* file, the difference and the missed packets as they were.
C24_RejectedHeaderFrame ==
    [][ invalid_header =>
            /\ disk' = disk
            /\ self' = self
            /\ packet_counter' = packet_counter
            /\ difference' = difference
            /\ total_missed_packets' = total_missed_packets ]_vars

\* a valid packet, a rejected one and the marker of a third: the read
\* position is at the third packet, the packet number is still 2 and the
\* accounting file holds the one line of the first packet
C24_Witness ==
    /\ pc = "header" /\ fp_file = 24 + 2 * (90 + 1024)
    /\ Len(current_file.pkts) = 3
    /\ current_file.pkts[2].len # 1052
    /\ packet_counter = 2
    /\ Len(disk.P[file_no]) = 1
    /\ self.last_udp_packet_counter = Some(current_file.pkts[1].ctr)


\* C25 as stated: whatever the counters of the valid packets, the missed
\* packets of a file are never negative; once the flag is set,
\* number_of_wrap_around never decreases and is never negative; and no line
\* is written with a negative timestamp.
C25_Original ==
    [][ /\ total_missed_packets' >= 0
        /\ self.first_wrap_around = 1 =>
               /\ self'.number_of_wrap_around >= self.number_of_wrap_around
               /\ self'.number_of_wrap_around >= 0
        /\ pc = "classify" =>
               \A h \in EventStreams : \A n \in 1..Len(appended(h)) :
                   appended(h)[n][3] >= 0 ]_vars


\* C26 as stated: the last line of the summary of every file of a run of
\* the two-channel decoder is 160 times the wraparounds counted from the
\* markers and overflow-form bytes since the first marker of the run, and it
\* lies between 0 and the total time of the line before it (read here for
\* runs whose counters increase from packet to packet only).
C26_Original ==
    [][ (/\ pc = "summary" /\ program = "two_channel"
         /\ \A k \in pkt_places : delta_at(k) >= 1) =>
            /\ Len(appended("P")) = 3
            /\ appended("P")[3][2] = 160 * wraps_from_samples
            /\ 0 <= appended("P")[3][2]
            /\ appended("P")[3][2] <= appended("P")[2][2] ]_vars


(***************************************************************************)
(* A call of retrieve_from_log_file as a function of the instance and the  *)
(* file: the instance after the call and the lines written to the event    *)
(* streams (A, B, C) and the accounting lines (P, without the summary).    *)
(* It takes the steps of the actions above, one after the other.           *)
(***************************************************************************)
\* the classifier on the bytes start + j .. start + len - 1 of the file
RECURSIVE classify_payload(_, _, _, _, _, _, _)
classify_payload(prog, s, f, start, len, j, pkt) ==
    IF j >= len THEN NoWrites(s)
    ELSE LET n == Min(RunLen(f, start + j), len - j)
             r == classify_run(prog, s, ByteAt(f, start + j), n, pkt)
             q == classify_payload(prog, r.self, f, start, len, j + n, pkt)
         IN  [self |-> q.self, A |-> r.A \o q.A, B |-> r.B \o q.B, C |-> r.C \o q.C]

\* the packet loop from the read position pos, with packet number pkt
RECURSIVE decode_from(_, _, _, _, _)
decode_from(prog, s, f, pos, pkt) ==
    IF ReadLen(f, pos, packet_header_size) < packet_header_size
    THEN [self |-> s, A |-> <<>>, B |-> <<>>, C |-> <<>>, P |-> <<>>]
    ELSE IF ByteAt(f, pos + 32) * 256 + ByteAt(f, pos + 33) = valid_packet_length
    THEN LET ctr == ByteAt(f, pos + 86) * 16777216 + ByteAt(f, pos + 87) * 65536
                        + ByteAt(f, pos + 88) * 256 + ByteAt(f, pos + 89)
             first == s.last_udp_packet_counter = None
             d == IF first THEN 1 ELSE ctr - s.last_udp_packet_counter[1]
             s1 == [s EXCEPT
                       !.number_of_wrap_around =
                           @ + (IF ~first /\ d # 1 THEN (d - 1) * lost_packet_ticks ELSE 0),
                       !.last_udp_packet_counter = Some(ctr)]
             len == ReadLen(f, pos + packet_header_size, sub_data_array_size)
             r == classify_payload(prog, s1, f, pos + packet_header_size, len, 0, pkt)
             q == decode_from(prog, r.self, f, pos + packet_header_size + len, pkt + 1)
         IN  [self |-> q.self, A |-> r.A \o q.A, B |-> r.B \o q.B, C |-> r.C \o q.C,
              P |-> << <<pkt, ctr, d>> >> \o q.P]
    ELSE LET scan == resync_scan(f, pos + packet_header_size)
         IN  IF scan.found THEN decode_from(prog, s, f, scan.pos - rewind_bytes, pkt)
             ELSE [self |-> s, A |-> <<>>, B |-> <<>>, C |-> <<>>, P |-> <<>>]

decode_file(prog, s, f) == decode_from(prog, s, f, file_header_size, 1)

\* the calls for the files fs in their order: the instance at the end and
\* the lines of each stream over all the files
RECURSIVE decode_files(_, _, _)
decode_files(prog, s, fs) ==
    IF fs = <<>> THEN [self |-> s, A |-> <<>>, B |-> <<>>, C |-> <<>>, P |-> <<>>]
    ELSE LET r == decode_file(prog, s, Head(fs))
             q == decode_files(prog, r.self, Tail(fs))
         IN  [self |-> q.self, A |-> r.A \o q.A, B |-> r.B \o q.B, C |-> r.C \o q.C,
              P |-> r.P \o q.P]

\* the accounting lines of the run, over its files
accounting_of_run ==
    concatenate([k \in 1..file_no |-> accounting_lines(k)])

\* at the end of a run, the function gives what the steps have left
decode_agrees ==
    Final =>
        LET r == decode_files(program, init_self, files)
        IN  /\ r.self = self
            /\ \A h \in EventStreams : r[h] = stream_of_run(h)
            /\ r.P = accounting_of_run


\* a line without its first column, the packet number of the file
without_packet_number(lines) == [n \in 1..Len(lines) |-> Tail(lines[n])]

\* the run decodes a capture of whole packets of 90 + 1024 bytes, each with
\* its marker, split at a packet boundary into two files
split_capture ==
    /\ Len(files) = 2 /\ files[1].cut = 0 /\ files[2].cut = 0
    /\ documented_format(files[1]) /\ documented_format(files[2])

\* the capture of a split run in one file
unsplit == whole_file(files[1].pkts \o files[2].pkts)

\* C27 as stated: at the end of the run on the two files of a split
\* capture, every event stream holds the (count, timestamp) pairs, the
\* accounting stream the (counter, delta) pairs and the instance the
\* wraparound count that a new instance gives on the unsplit capture.
C27_Original ==
    (Final /\ split_capture) =>
        LET one == decode_file(program, init_self, unsplit)
        IN  /\ \A h \in EventStreams :
                   without_packet_number(stream_of_run(h)) = without_packet_number(one[h])
            /\ without_packet_number(accounting_of_run) = without_packet_number(one.P)
            /\ self.number_of_wrap_around = one.self.number_of_wrap_around


\* C28 as stated: the counts of the bins add up to the number of timestamps
\* of the series, for every series that is not empty and every bin width.
C28_Original ==
    main.pc = "plotted" => SumSeq(main.counts) = Len(main.all_ts)

====
